---- MODULE Spec2Model ----
(***************************************************************************)
(* Model of the /recommend request handler of the publishing-date          *)
(* recommendation service (src/article-function/main.py).                  *)
(*                                                                         *)
(* Text is a sequence of one-character strings.  JSON values (and Python   *)
(* values obtained from JSON) are records of one uniform shape, so that    *)
(* any two values can be compared.  Long literals of the source that are   *)
(* never scanned (the fallback description, the default region) are kept   *)
(* as a single opaque token.                                               *)
(***************************************************************************)
EXTENDS Integers, Sequences, FiniteSets, TLC

(***************************************************************************)
(* Bounds of the model.                                                    *)
(***************************************************************************)
\* longest free-form model text enumerated character by character
MaxLen == 3
\* how many characters beyond the content cap a request's content may have
MaxExtra == 2
\* how many rows beyond the row cap a reference dataset may have
MaxExtraRows == 2

(***************************************************************************)
(* Program constants.                                                      *)
(***************************************************************************)
\* content[:1000]
ContentCap == 1000
\* subs_data[:20], season_data[:20]
RowCap == 20
\* length of the fence marker, as in result_text[:-3]
FenceLen == 3
\* len('json')
TagLen == 4

(***************************************************************************)
(* Values.                                                                 *)
(***************************************************************************)
V(t, s, n, items, keys) == [t |-> t, s |-> s, n |-> n, items |-> items, keys |-> keys]

\* Python None: JSON null, or get_json(silent=True) on a body that is not JSON
NullV == V("null", <<>>, 0, <<>>, <<>>)
StrV(s) == V("str", s, 0, <<>>, <<>>)
NumV(n) == V("num", <<>>, n, <<>>, <<>>)
BoolV(b) == V("bool", <<>>, IF b THEN 1 ELSE 0, <<>>, <<>>)
ArrV(items) == V("arr", <<>>, 0, items, <<>>)
ObjV(keys, items) == V("obj", <<>>, 0, items, keys)

\* Python truthiness, as used by: not request_json, not title, not content
Truthy(v) ==
    CASE v.t = "null" -> FALSE
      [] v.t = "bool" -> v.n = 1
      [] v.t = "num"  -> v.n # 0
      [] v.t = "str"  -> v.s # <<>>
      [] v.t = "arr"  -> v.items # <<>>
      [] v.t = "obj"  -> v.keys # <<>>

HasKey(v, key) == v.t = "obj" /\ \E i \in 1..Len(v.keys) : v.keys[i] = key

\* dict.get(key, default)
Get(v, key, default) ==
    IF \E i \in 1..Len(v.keys) : v.keys[i] = key
    THEN v.items[CHOOSE i \in 1..Len(v.keys) : v.keys[i] = key]
    ELSE default

\* dict[key] = value while decoding: a repeated key keeps its place, last value wins
Put(keys, items, key, value) ==
    IF \E i \in 1..Len(keys) : keys[i] = key
    THEN [keys |-> keys,
          items |-> [items EXCEPT ![CHOOSE i \in 1..Len(keys) : keys[i] = key] = value]]
    ELSE [keys |-> Append(keys, key), items |-> Append(items, value)]

(***************************************************************************)
(* str methods used by the normalisation.                                  *)
(***************************************************************************)
Whitespace == {" ", "\n", "\t", "\r"}

\* the backquote character, which a TLA+ string cannot hold, written as a token
BQ == "BQ"
\* the markdown code-fence marker: three backquotes
Fence == <<BQ, BQ, BQ>>
JsonTag == <<"j", "s", "o", "n">>

Drop(s, k) == SubSeq(s, k + 1, Len(s))
Take(s, k) == SubSeq(s, 1, IF k < Len(s) THEN k ELSE Len(s))

\* s.startswith(p)
StartsWith(s, p) == Len(s) >= Len(p) /\ SubSeq(s, 1, Len(p)) = p
\* s.endswith(p)
EndsWith(s, p) == Len(s) >= Len(p) /\ SubSeq(s, Len(s) - Len(p) + 1, Len(s)) = p

RECURSIVE LStrip(_)
LStrip(s) == IF s # <<>> /\ s[1] \in Whitespace THEN LStrip(Tail(s)) ELSE s
RECURSIVE RStrip(_)
RStrip(s) ==
    IF s # <<>> /\ s[Len(s)] \in Whitespace THEN RStrip(SubSeq(s, 1, Len(s) - 1)) ELSE s
\* s.strip()
Strip(s) == RStrip(LStrip(s))

\* c in s
Contains(s, c) == \E i \in 1..Len(s) : s[i] = c
\* s.find(c), 1-based; 0 when absent
Find(s, c) ==
    IF Contains(s, c)
    THEN CHOOSE i \in 1..Len(s) : s[i] = c /\ \A j \in 1..(i - 1) : s[j] # c
    ELSE 0
\* s.rfind(c), 1-based; 0 when absent
RFind(s, c) ==
    IF Contains(s, c)
    THEN CHOOSE i \in 1..Len(s) : s[i] = c /\ \A j \in (i + 1)..Len(s) : s[j] # c
    ELSE 0

\* position of the first occurrence of p in s, 0 when absent
FindSeq(s, p) ==
    LET hits == {i \in 1..(Len(s) - Len(p) + 1) : SubSeq(s, i, i + Len(p) - 1) = p}
    IN IF hits = {} THEN 0 ELSE CHOOSE i \in hits : \A j \in hits : i <= j

\* s.split(fence)[1] for s that starts with the fence: the text between the
\* first occurrence of the fence and the next one (or the end of s)
SplitFenceSecond(s) ==
    LET rest == Drop(s, FenceLen)
        nxt == FindSeq(rest, Fence)
    IN IF nxt = 0 THEN rest ELSE SubSeq(rest, 1, nxt - 1)

(***************************************************************************)
(* json.loads: the decoder of the standard library on the characters of    *)
(* the model (objects, arrays, strings without escapes, non-negative       *)
(* integers, true/false/null, whitespace).                                 *)
(***************************************************************************)
Digits == {"0", "1", "2", "3", "4", "5", "6", "7", "8", "9"}
DigitVal(c) ==
    CASE c = "0" -> 0 [] c = "1" -> 1 [] c = "2" -> 2 [] c = "3" -> 3 [] c = "4" -> 4
      [] c = "5" -> 5 [] c = "6" -> 6 [] c = "7" -> 7 [] c = "8" -> 8 [] c = "9" -> 9

ParseFail == [ok |-> FALSE, val |-> NullV, next |-> 0]
ParseOk(v, n) == [ok |-> TRUE, val |-> v, next |-> n]

RECURSIVE SkipWS(_, _)
SkipWS(s, i) == IF i <= Len(s) /\ s[i] \in Whitespace THEN SkipWS(s, i + 1) ELSE i

\* i is the position after the opening quote; strict mode rejects control characters
RECURSIVE ScanString(_, _, _)
ScanString(s, i, acc) ==
    IF i > Len(s) THEN ParseFail
    ELSE IF s[i] = "\"" THEN ParseOk(StrV(acc), i + 1)
    ELSE IF s[i] \in {"\n", "\t", "\r"} THEN ParseFail
    ELSE ScanString(s, i + 1, Append(acc, s[i]))

RECURSIVE ScanDigits(_, _, _)
ScanDigits(s, i, acc) ==
    IF i <= Len(s) /\ s[i] \in Digits
    THEN ScanDigits(s, i + 1, acc * 10 + DigitVal(s[i]))
    ELSE ParseOk(NumV(acc), i)

\* (0|[1-9]\d*)
ScanNumber(s, i) ==
    IF s[i] = "0" THEN ParseOk(NumV(0), i + 1) ELSE ScanDigits(s, i, 0)

MatchLiteral(s, i, lit, v) ==
    IF i + Len(lit) - 1 <= Len(s) /\ SubSeq(s, i, i + Len(lit) - 1) = lit
    THEN ParseOk(v, i + Len(lit))
    ELSE ParseFail

RECURSIVE ScanOnce(_, _)
RECURSIVE ParseMembers(_, _, _, _)
RECURSIVE ParseElements(_, _, _)

\* JSONObject: j is the position of the quote that opens the next key
ParseMembers(s, j, keys, items) ==
    IF j > Len(s) \/ s[j] # "\"" THEN ParseFail
    ELSE LET k == ScanString(s, j + 1, <<>>)
         IN IF ~k.ok THEN ParseFail
            ELSE LET c == SkipWS(s, k.next)
                 IN IF c > Len(s) \/ s[c] # ":" THEN ParseFail
                    ELSE LET v == ScanOnce(s, SkipWS(s, c + 1))
                         IN IF ~v.ok THEN ParseFail
                            ELSE LET e == SkipWS(s, v.next)
                                     d == Put(keys, items, k.val.s, v.val)
                                 IN IF e > Len(s) THEN ParseFail
                                    ELSE IF s[e] = "}"
                                    THEN ParseOk(ObjV(d.keys, d.items), e + 1)
                                    ELSE IF s[e] = ","
                                    THEN ParseMembers(s, SkipWS(s, e + 1), d.keys, d.items)
                                    ELSE ParseFail

\* JSONArray: j is the position of the next element
ParseElements(s, j, items) ==
    LET v == ScanOnce(s, j)
    IN IF ~v.ok THEN ParseFail
       ELSE LET e == SkipWS(s, v.next)
            IN IF e > Len(s) THEN ParseFail
               ELSE IF s[e] = "]" THEN ParseOk(ArrV(Append(items, v.val)), e + 1)
               ELSE IF s[e] = "," THEN ParseElements(s, SkipWS(s, e + 1), Append(items, v.val))
               ELSE ParseFail

\* scan_once
ScanOnce(s, i) ==
    IF i > Len(s) THEN ParseFail
    ELSE IF s[i] = "\"" THEN ScanString(s, i + 1, <<>>)
    ELSE IF s[i] = "{"
    THEN LET j == SkipWS(s, i + 1)
         IN IF j <= Len(s) /\ s[j] = "}" THEN ParseOk(ObjV(<<>>, <<>>), j + 1)
            ELSE ParseMembers(s, j, <<>>, <<>>)
    ELSE IF s[i] = "["
    THEN LET j == SkipWS(s, i + 1)
         IN IF j <= Len(s) /\ s[j] = "]" THEN ParseOk(ArrV(<<>>), j + 1)
            ELSE ParseElements(s, j, <<>>)
    ELSE IF s[i] = "n" THEN MatchLiteral(s, i, <<"n", "u", "l", "l">>, NullV)
    ELSE IF s[i] = "t" THEN MatchLiteral(s, i, <<"t", "r", "u", "e">>, BoolV(TRUE))
    ELSE IF s[i] = "f" THEN MatchLiteral(s, i, <<"f", "a", "l", "s", "e">>, BoolV(FALSE))
    ELSE IF s[i] \in Digits THEN ScanNumber(s, i)
    ELSE ParseFail

\* json.loads(text): ok = FALSE stands for json.JSONDecodeError
JSONLoads(text) ==
    LET r == ScanOnce(text, SkipWS(text, 1))
    IN IF r.ok /\ SkipWS(text, r.next) = Len(text) + 1 THEN [ok |-> TRUE, val |-> r.val]
       ELSE [ok |-> FALSE, val |-> NullV]

(***************************************************************************)
(* Normalisation of the model's raw text (lines 132-148).                  *)
(***************************************************************************)
\* if result_text.startswith(fence): split, drop the language tag, strip
StripFence(t) ==
    IF StartsWith(t, Fence)
    THEN LET a == SplitFenceSecond(t)
             b == IF StartsWith(a, JsonTag) THEN Drop(a, TagLen) ELSE a
         IN Strip(b)
    ELSE t

\* if result_text.endswith(fence): result_text[:-3].strip()
StripTrailingFence(t) ==
    IF EndsWith(t, Fence) THEN Strip(SubSeq(t, 1, Len(t) - FenceLen)) ELSE t

\* variant: the extraction ends at the first closing brace
ExtractJSON_FirstClose(t) ==
    IF Contains(t, "{") /\ Contains(t, "}")
    THEN SubSeq(t, Find(t, "{"), Find(t, "}"))
    ELSE t

\* result_text[find('{') : rfind('}') + 1] when both braces occur
ExtractJSON(t) ==
    IF Contains(t, "{") /\ Contains(t, "}")
    THEN SubSeq(t, Find(t, "{"), RFind(t, "}"))
    ELSE t

\* the text handed to json.loads
NormalizeText(raw) == ExtractJSON(StripTrailingFence(StripFence(Strip(raw))))

(***************************************************************************)
(* Literals of the handler.                                                *)
(***************************************************************************)
kTitle == <<"t", "i", "t", "l", "e">>
kContent == <<"c", "o", "n", "t", "e", "n", "t">>
kRegion == <<"r", "e", "g", "i", "o", "n">>
kDescription == <<"d", "e", "s", "c", "r", "i", "p", "t", "i", "o", "n">>
kInsights == <<"i", "n", "s", "i", "g", "h", "t", "s">>

DefaultRegion == StrV(<<"Australia">>)

\* the hardcoded fallback result; each literal is one opaque token (the
\* description abbreviated)
FallbackResult ==
    ObjV(<<kDescription, kInsights>>,
         <<StrV(<<"<p><strong>General Content</strong> shows consistent engagement. ...</div>">>),
           ArrV(<<StrV(<<"Historical patterns analyzed">>),
                  StrV(<<"Weekday mornings recommended">>),
                  StrV(<<"Thursday afternoons show engagement">>)>>)>>)

\* variant: the preflight answer without a cache lifetime
PreflightHeaders_NoMaxAge ==
    {<<"Access-Control-Allow-Origin", "*">>,
     <<"Access-Control-Allow-Methods", "POST, OPTIONS">>,
     <<"Access-Control-Allow-Headers", "Content-Type">>}

\* headers of the OPTIONS branch
PreflightHeaders ==
    {<<"Access-Control-Allow-Origin", "*">>,
     <<"Access-Control-Allow-Methods", "POST, OPTIONS">>,
     <<"Access-Control-Allow-Headers", "Content-Type">>,
     <<"Access-Control-Max-Age", "3600">>}

\* headers = {...} built before the try block
JsonHeaders ==
    {<<"Access-Control-Allow-Origin", "*">>,
     <<"Content-Type", "application/json">>}

\* no headers given to the framework by the handler
NoHeaders == {}

\* ('', 204, headers)
PreflightResponse ==
    [status |-> 204, kind |-> "empty", fields |-> {}, bstatus |-> "", message |-> "",
     data |-> NullV, headers |-> PreflightHeaders]

\* jsonify({"status": "error", "message": msg}), code[, headers]
ErrorResponse(code, msg, hdrs) ==
    [status |-> code, kind |-> "json", fields |-> {"status", "message"},
     bstatus |-> "error", message |-> msg, data |-> NullV, headers |-> hdrs]

\* jsonify({"status": "success", "data": result_json}), 200, headers
SuccessResponse(result_json) ==
    [status |-> 200, kind |-> "json", fields |-> {"status", "data"},
     bstatus |-> "success", message |-> "", data |-> result_json, headers |-> JsonHeaders]

\* the two validation exits, returned without the headers dictionary
NoJsonResponse == ErrorResponse(400, "No JSON data provided", NoHeaders)
MissingFieldResponse == ErrorResponse(400, "Title and content are required", NoHeaders)

\* variant: a failure is hidden behind the fallback result
UnhandledErrorResponse_Fallback(msg) == SuccessResponse(FallbackResult)

\* except Exception as e: str(e) with status 500
UnhandledErrorResponse(msg) == ErrorResponse(500, msg, JsonHeaders)

\* variant: without the inner handler the decode error reaches the outer one
OnParseFailure_Surface == ErrorResponse(500, "Failed to parse AI response", JsonHeaders)

\* the inner except json.JSONDecodeError: the fallback replaces the result
OnParseFailure == SuccessResponse(FallbackResult)

\* variant: the whole content goes into the prompt
SliceContent_NoCap(c) ==
    CASE c.t = "str" -> [ok |-> TRUE, val |-> c]
      [] c.t = "arr" -> [ok |-> TRUE, val |-> c]
      [] OTHER       -> [ok |-> FALSE, val |-> NullV]

\* content[:1000]; ok = FALSE stands for the TypeError of a value without slicing
SliceContent(c) ==
    CASE c.t = "str" -> [ok |-> TRUE, val |-> StrV(Take(c.s, ContentCap))]
      [] c.t = "arr" -> [ok |-> TRUE, val |-> ArrV(Take(c.items, ContentCap))]
      [] OTHER       -> [ok |-> FALSE, val |-> NullV]

\* subs_data[:20], season_data[:20]
SliceRows(rows) == Take(rows, RowCap)

\* the values the f-string places in the template
BuildPrompt(t, c, r, subs, season) ==
    [title |-> t, content |-> c, region |-> r,
     subs |-> SliceRows(subs), season |-> SliceRows(season)]

NoPrompt == [title |-> NullV, content |-> NullV, region |-> NullV, subs |-> <<>>, season |-> <<>>]

(***************************************************************************)
(* Inputs: request bodies, store results, model texts.                     *)
(***************************************************************************)
\* a content of n characters whose neighbours differ
ContentText(n) == [i \in 1..n |-> IF i % 2 = 0 THEN "a" ELSE "b"]

ContentLengths == {1, ContentCap} \cup {ContentCap + k : k \in 1..MaxExtra}

Article(t, c) == ObjV(<<kTitle, kContent>>, <<t, c>>)

\* request.get_json(silent=True): NullV also stands for a body that is not JSON
RequestBodies ==
    {NullV, ObjV(<<>>, <<>>), ArrV(<<>>), ArrV(<<NumV(1)>>), StrV(<<"x">>), StrV(<<>>),
     NumV(42), NumV(0), BoolV(TRUE),
     ObjV(<<kTitle>>, <<StrV(<<"T">>)>>),
     ObjV(<<kContent>>, <<StrV(<<"c">>)>>),
     ObjV(<<kRegion>>, <<StrV(<<"NZ">>)>>),
     Article(StrV(<<>>), StrV(<<"c">>)),
     Article(StrV(<<"T">>), StrV(<<>>)),
     Article(StrV(<<"T">>), NullV),
     Article(NumV(0), StrV(<<"c">>)),
     Article(StrV(<<"T">>), NumV(5)),
     Article(StrV(<<"T">>), ObjV(<<kTitle>>, <<NumV(1)>>)),
     Article(NumV(7), ArrV(<<StrV(<<"c">>)>>)),
     ObjV(<<kTitle, kContent, kRegion>>, <<StrV(<<"T">>), StrV(<<"c">>), StrV(<<"NZ">>)>>)}
    \cup {Article(StrV(<<"T">>), StrV(ContentText(n))) : n \in ContentLengths}

Methods == {"POST", "OPTIONS"}

\* str(e) of a failing external call
FailureMessages == {"403 Access Denied", "503 Service Unavailable"}

\* a result set of n rows, newest first
Rows(n) == [i \in 1..n |-> n + 1 - i]
RowCounts == {0, RowCap} \cup {RowCap + k : k \in 1..MaxExtraRows}

StoreOutcomes ==
    {[ok |-> TRUE, rows |-> Rows(n), error |-> ""] : n \in RowCounts}
    \cup {[ok |-> FALSE, rows |-> <<>>, error |-> m] : m \in FailureMessages}

RECURSIVE DigitsOf(_)
DigitsOf(n) ==
    LET d == <<"0", "1", "2", "3", "4", "5", "6", "7", "8", "9">>[(n % 10) + 1]
    IN IF n < 10 THEN <<d>> ELSE Append(DigitsOf(n \div 10), d)

\* the JSON text of a value, compact or with a break after each separator
RECURSIVE Render(_, _)
RECURSIVE RenderItems(_, _, _)
RECURSIVE RenderMembers(_, _, _)
Comma(sp) == IF sp THEN <<",", "\n", " ">> ELSE <<",">>
Colon(sp) == IF sp THEN <<":", " ">> ELSE <<":">>
Quoted(s) == <<"\"">> \o s \o <<"\"">>
RenderItems(items, i, sp) ==
    IF i > Len(items) THEN <<>>
    ELSE (IF i > 1 THEN Comma(sp) ELSE <<>>) \o Render(items[i], sp)
         \o RenderItems(items, i + 1, sp)
RenderMembers(v, i, sp) ==
    IF i > Len(v.keys) THEN <<>>
    ELSE (IF i > 1 THEN Comma(sp) ELSE <<>>) \o Quoted(v.keys[i]) \o Colon(sp)
         \o Render(v.items[i], sp) \o RenderMembers(v, i + 1, sp)
Render(v, sp) ==
    CASE v.t = "null" -> <<"n", "u", "l", "l">>
      [] v.t = "bool" -> IF v.n = 1 THEN <<"t", "r", "u", "e">> ELSE <<"f", "a", "l", "s", "e">>
      [] v.t = "num"  -> DigitsOf(v.n)
      [] v.t = "str"  -> Quoted(v.s)
      [] v.t = "arr"  -> <<"[">> \o RenderItems(v.items, 1, sp) \o <<"]">>
      [] v.t = "obj"  -> <<"{">> \o RenderMembers(v, 1, sp) \o <<"}">>

Result(d, ins) == ObjV(<<kDescription, kInsights>>, <<d, ins>>)

\* the JSON objects a model text may hold
Objects ==
    {ObjV(<<>>, <<>>),
     ObjV(<<<<"a">>>>, <<NumV(1)>>),
     Result(StrV(<<"x">>), ArrV(<<>>)),
     Result(StrV(<<"x">>), ArrV(<<StrV(<<"a">>)>>)),
     Result(StrV(<<"x">>), ArrV(<<StrV(<<"a">>), NumV(1)>>)),
     Result(NumV(1), ArrV(<<>>)),
     Result(StrV(Fence), ArrV(<<>>)),
     Result(StrV(<<"x">>), ArrV(<<StrV(<<"a", BQ, BQ, BQ, "b">>)>>)),
     ObjV(<<<<"a">>>>, <<ObjV(<<kDescription>>, <<StrV(<<"}", "{">>)>>)>>)}

FencedWraps == {"fence_json", "fence_json_tight", "fence", "fence_tight", "fence_json_padded"}
\* an object text inside prose without braces (or inside nothing but whitespace)
ProseWraps == {"prose", "prose_backquotes", "bare", "padded"}
Wraps == FencedWraps \cup ProseWraps

\* the raw text of the model around the object text j
Wrap(w, j) ==
    CASE w = "fence_json"        -> Fence \o JsonTag \o <<"\n">> \o j \o <<"\n">> \o Fence
      [] w = "fence_json_tight"  -> Fence \o JsonTag \o j \o Fence
      [] w = "fence"             -> Fence \o <<"\n">> \o j \o <<"\n">> \o Fence
      [] w = "fence_tight"       -> Fence \o j \o Fence
      [] w = "fence_json_padded" -> <<" ", "\n">> \o Fence \o JsonTag \o <<" ">> \o j
                                    \o <<" ">> \o Fence \o <<"\n">>
      [] w = "prose"             -> <<"H", "e", "r", "e", ":", " ">> \o j
                                    \o <<" ", "H", "o", "p", "e", "!">>
      [] w = "prose_backquotes"  -> <<"s", "e", "e", " ", BQ, " ">> \o j
                                    \o <<"\n">> \o Fence
      [] w = "bare"              -> j
      [] w = "padded"            -> <<" ", "\n">> \o j \o <<"\n", " ">>

\* texts that are no wrapped object
FixedTexts ==
    {<<"[", "1", "]">>, <<"4", "2">>, <<"n", "u", "l", "l">>, <<"\"", "x", "\"">>,
     <<"n", "o", "t", " ", "j", "s", "o", "n">>,
     <<"[", "1">>, <<"{", "\"", "a", "\"", ":", "}">>,
     <<"{", "\"", "a", "\"", ":", "1", "}", " ", "{", "}">>,
     <<"{", "\"", "a", "\"", ":", "1", ",", "}">>,
     <<"j", "s", "o", "n", "{", "}">>,
     Fence \o Fence, Fence \o JsonTag, Fence \o <<"j", "s">> \o Fence,
     Fence \o <<"[", "1", "]">> \o Fence,
     Fence \o <<"x">> \o Fence \o <<"{", "}">>}

SmallAlphabet == {"{", "}", BQ, "1", " "}
FreeTexts == UNION {[1..n -> SmallAlphabet] : n \in 0..MaxLen}

\* what the model may return: text, with how it was made (wrap, obj)
ModelTexts ==
    {[text |-> Wrap(w, Render(o, sp)), wrap |-> w, obj |-> o] :
        <<o, sp, w>> \in Objects \X BOOLEAN \X Wraps}
    \cup {[text |-> t, wrap |-> "other", obj |-> NullV] : t \in FixedTexts \cup FreeTexts}

NoText == [text |-> <<>>, wrap |-> "none", obj |-> NullV]
NoFailure == [call |-> "none", error |-> ""]

(***************************************************************************)
(* State of one execution of get_publishing_recommendation.                *)
(***************************************************************************)
VARIABLES
    pc,            \* position in the handler
    method,        \* request.method
    request_json,  \* request.get_json(silent=True)
    subs_data,     \* rows of the subscription query
    season_data,   \* rows of the seasonality query
    prompt,        \* the prompt given to generate_content
    model_out,     \* response.text, with how the text was made
    result_text,   \* the text handed to json.loads
    responses,     \* the responses returned, in order
    calls,         \* the external calls made, in order
    failed         \* the external call that raised and its str(e), or NoFailure

vars == <<pc, method, request_json, subs_data, season_data, prompt, model_out,
          result_text, responses, calls, failed>>

title == Get(request_json, kTitle, StrV(<<>>))
content == Get(request_json, kContent, StrV(<<>>))
region == Get(request_json, kRegion, DefaultRegion)

Init ==
    /\ pc = "start"
    /\ method \in Methods
    /\ request_json \in RequestBodies
    /\ subs_data = <<>>
    /\ season_data = <<>>
    /\ prompt = NoPrompt
    /\ model_out = NoText
    /\ result_text = <<>>
    /\ responses = <<>>
    /\ calls = <<>>
    /\ failed = NoFailure

\* return: the handler ends with this response
Return(r) ==
    /\ responses' = Append(responses, r)
    /\ pc' = "done"

\* lines 33-40: the OPTIONS branch
Preflight ==
    /\ pc = "start"
    /\ method = "OPTIONS"
    /\ Return(PreflightResponse)
    /\ UNCHANGED <<method, request_json, subs_data, season_data, prompt, model_out,
                   result_text, calls, failed>>

\* lines 42-64: body and field validation of a POST
Validate ==
    /\ pc = "start"
    /\ method # "OPTIONS"
    /\ IF ~Truthy(request_json) THEN Return(NoJsonResponse)
       ELSE IF request_json.t # "obj"
       THEN Return(UnhandledErrorResponse("object has no attribute 'get'"))
       ELSE IF ~Truthy(title) \/ ~Truthy(content) THEN Return(MissingFieldResponse)
       ELSE /\ pc' = "query_subscription"
            /\ UNCHANGED responses
    /\ UNCHANGED <<method, request_json, subs_data, season_data, prompt, model_out,
                   result_text, calls, failed>>

\* variant: a failed subscription query is issued again
QuerySubscription_Retry ==
    /\ pc = "query_subscription"
    /\ calls' = Append(calls, "subscription")
    /\ \E out \in StoreOutcomes :
          IF out.ok \/ Len(calls) >= 1
          THEN /\ subs_data' = out.rows
               /\ pc' = "query_seasonality"
               /\ UNCHANGED <<responses, failed>>
          ELSE /\ UNCHANGED <<pc, subs_data, responses, failed>>
    /\ UNCHANGED <<method, request_json, season_data, prompt, model_out, result_text>>

\* lines 66-74: the subscription query
QuerySubscription ==
    /\ pc = "query_subscription"
    /\ calls' = Append(calls, "subscription")
    /\ \E out \in StoreOutcomes :
          IF out.ok
          THEN /\ subs_data' = out.rows
               /\ pc' = "query_seasonality"
               /\ UNCHANGED <<responses, failed>>
          ELSE /\ failed' = [call |-> "subscription", error |-> out.error]
               /\ Return(UnhandledErrorResponse(out.error))
               /\ UNCHANGED subs_data
    /\ UNCHANGED <<method, request_json, season_data, prompt, model_out, result_text>>

\* lines 76-82: the seasonality query
QuerySeasonality ==
    /\ pc = "query_seasonality"
    /\ calls' = Append(calls, "seasonality")
    /\ \E out \in StoreOutcomes :
          IF out.ok
          THEN /\ season_data' = out.rows
               /\ pc' = "invoke_model"
               /\ UNCHANGED <<responses, failed>>
          ELSE /\ failed' = [call |-> "seasonality", error |-> out.error]
               /\ Return(UnhandledErrorResponse(out.error))
               /\ UNCHANGED season_data
    /\ UNCHANGED <<method, request_json, subs_data, prompt, model_out, result_text>>

\* lines 84-124: the prompt is built and the model invoked with it
InvokeModel ==
    /\ pc = "invoke_model"
    /\ LET c == SliceContent(content)
       IN IF ~c.ok
          THEN /\ Return(UnhandledErrorResponse("object is not subscriptable"))
               /\ UNCHANGED <<prompt, model_out, calls, failed>>
          ELSE /\ prompt' = BuildPrompt(title, c.val, region, subs_data, season_data)
               /\ calls' = Append(calls, "model")
               /\ \/ \E m \in FailureMessages :
                        /\ failed' = [call |-> "model", error |-> m]
                        /\ Return(UnhandledErrorResponse(m))
                        /\ UNCHANGED model_out
                  \/ \E t \in ModelTexts :
                        /\ model_out' = t
                        /\ pc' = "normalize"
                        /\ UNCHANGED <<responses, failed>>
    /\ UNCHANGED <<method, request_json, subs_data, season_data, result_text>>

\* lines 132-167: normalisation, parse (or fallback) and the success response
Finish ==
    /\ pc = "normalize"
    /\ LET text == NormalizeText(model_out.text)
           r == JSONLoads(text)
       IN /\ result_text' = text
          /\ Return(IF r.ok THEN SuccessResponse(r.val) ELSE OnParseFailure)
    /\ UNCHANGED <<method, request_json, subs_data, season_data, prompt, model_out,
                   calls, failed>>

Next ==
    \/ Preflight
    \/ Validate
    \/ QuerySubscription
    \/ QuerySeasonality
    \/ InvokeModel
    \/ Finish

Spec == Init /\ [][Next]_vars

(***************************************************************************)
(* Properties.                                                             *)
(***************************************************************************)
Done == pc = "done"
\* the response of a finished execution
Response == responses[1]
CorsAny == <<"Access-Control-Allow-Origin", "*">>
\* the model returned a text
ModelReturned == model_out # NoText
\* the request passed validation: a JSON object with non-empty title and content
Validated ==
    /\ method = "POST"
    /\ request_json.t = "obj"
    /\ Truthy(title)
    /\ Truthy(content)
\* the body lacks title or content: not JSON, not an object, field absent or empty
LacksField(b) ==
    \/ b.t # "obj"
    \/ ~HasKey(b, kTitle)
    \/ ~HasKey(b, kContent)
    \/ Get(b, kTitle, NullV) = StrV(<<>>)
    \/ Get(b, kContent, NullV) = StrV(<<>>)
\* an object with a string description and a sequence of strings as insights
Conforms(d) ==
    /\ HasKey(d, kDescription)
    /\ HasKey(d, kInsights)
    /\ Get(d, kDescription, NullV).t = "str"
    /\ Get(d, kInsights, NullV).t = "arr"
    /\ \A i \in 1..Len(Get(d, kInsights, NullV).items) :
          Get(d, kInsights, NullV).items[i].t = "str"
Prefix(s, k) == [i \in 1..(IF Len(s) < k THEN Len(s) ELSE k) |-> s[i]]
IsPrefix(a, b) == Len(a) <= Len(b) /\ \A i \in 1..Len(a) : a[i] = b[i]
Count(s, x) == Cardinality({i \in 1..Len(s) : s[i] = x})

\* C1: a validated POST that is answered with 200 carries a data object with a
\* string description and a sequence of strings as insights, whatever text the
\* model returned.
C1_SchemaConformance ==
    (Done /\ Validated /\ Response.status = 200) => Conforms(Response.data)

\* C2: a POST whose body lacks title or content (not JSON, not an object, field
\* absent or empty) is answered with 400 and body status "error".
C2_MissingFields400 ==
    (Done /\ method = "POST" /\ LacksField(request_json))
        => (Response.status = 400 /\ Response.bstatus = "error")

\* C3: when both queries and the model call succeeded and the normalized text
\* is not parseable as JSON, the response is 200 "success" with exactly the
\* fixed fallback object; no 500 and no error body.
C3_ParseFailureFallback ==
    (Done /\ ModelReturned /\ ~JSONLoads(result_text).ok)
        => /\ Response.status = 200
           /\ Response.bstatus = "success"
           /\ Response.fields = {"status", "data"}
           /\ Response.data = FallbackResult
           /\ Len(Get(Response.data, kInsights, NullV).items) = 3

C3_Witness ==
    /\ Done
    /\ model_out.text = <<"n", "o", "t", " ", "j", "s", "o", "n">>
    /\ ~JSONLoads(result_text).ok
    /\ Response.data = FallbackResult

\* C4: every response of the handler, on every exit path, carries the header
\* Access-Control-Allow-Origin: *.
C4_CorsOnEveryResponse ==
    \A i \in 1..Len(responses) : CorsAny \in responses[i].headers

\* C5: when the trimmed model text is an opening fence (with or without the
\* tag json), a JSON object text J and a closing fence, data is the object J
\* denotes and the fallback is not used, also when a string of J holds the
\* fence marker.
C5_FenceStripping ==
    (Done /\ model_out.wrap \in FencedWraps)
        => (Response.status = 200 /\ Response.data = model_out.obj)

\* C6: for a model text that (trimmed) does not open with a fence and holds
\* both braces, json.loads receives exactly the text from the first opening to
\* the last closing brace; so an object text inside brace-free prose yields the
\* object it denotes.
C6_StrayProse ==
    (Done /\ ModelReturned) =>
        LET raw == model_out.text
        IN /\ (~StartsWith(Strip(raw), Fence) /\ Contains(raw, "{") /\ Contains(raw, "}"))
                 => result_text = SubSeq(raw, Find(raw, "{"), RFind(raw, "}"))
           /\ model_out.wrap \in ProseWraps
                 => (Response.status = 200 /\ Response.data = model_out.obj)

C6_Witness ==
    /\ Done
    /\ model_out.wrap = "prose"
    /\ model_out.obj = ObjV(<<<<"a">>>>, <<ObjV(<<kDescription>>, <<StrV(<<"}", "{">>)>>)>>)
    /\ Response.data = model_out.obj

\* C7: an OPTIONS request, whatever its body, is answered with 204, an empty
\* body and headers that allow POST from any origin with a 3600-second
\* preflight cache; nothing is validated, queried or invoked.
C7_Preflight ==
    method = "OPTIONS" =>
        /\ pc \in {"start", "done"}
        /\ calls = <<>>
        /\ prompt = NoPrompt
        /\ Done => /\ Len(responses) = 1
                   /\ Response.status = 204
                   /\ Response.kind = "empty"
                   /\ Response.fields = {}
                   /\ CorsAny \in Response.headers
                   /\ <<"Access-Control-Allow-Methods", "POST, OPTIONS">> \in Response.headers
                   /\ <<"Access-Control-Max-Age", "3600">> \in Response.headers

C7_Witness ==
    /\ Done
    /\ method = "OPTIONS"
    /\ request_json = ArrV(<<NumV(1)>>)
    /\ Response.status = 204

\* C8: the prompt given to the model holds exactly the first min(len, 1000)
\* characters of content and, of each dataset, exactly its first min(rows, 20)
\* rows in the order of the store.
C8_PromptTruncation ==
    Count(calls, "model") > 0 =>
        /\ content.t = "str" => prompt.content = StrV(Prefix(content.s, 1000))
        /\ content.t = "arr" => prompt.content = ArrV(Prefix(content.items, 1000))
        /\ prompt.subs = Prefix(subs_data, 20)
        /\ prompt.season = Prefix(season_data, 20)

C8_Witness ==
    /\ Count(calls, "model") > 0
    /\ content.t = "str"
    /\ Len(content.s) > 1000
    /\ Len(prompt.content.s) = 1000
    /\ Len(subs_data) > 20
    /\ Len(season_data) = 20

\* C9: when the subscription query, the seasonality query or the model call
\* fails, the response is 500 with body {status: "error", message: str(e)};
\* the failed call was made once, nothing after it ran, and the fallback is
\* not returned.
C9_FailureIs500 ==
    failed # NoFailure =>
        /\ Done
        /\ Len(responses) = 1
        /\ Response.status = 500
        /\ Response.kind = "json"
        /\ Response.fields = {"status", "message"}
        /\ Response.bstatus = "error"
        /\ Response.message = failed.error
        /\ Response.data # FallbackResult
        /\ Count(calls, failed.call) = 1
        /\ calls[Len(calls)] = failed.call
        /\ failed.call = "subscription" => (subs_data = <<>> /\ Len(calls) = 1)
        /\ failed.call \in {"subscription", "seasonality"}
              => (season_data = <<>> /\ prompt = NoPrompt)
        /\ model_out = NoText /\ result_text = <<>>

C9_Witness ==
    /\ Done
    /\ failed.call = "seasonality"
    /\ calls = <<"subscription", "seasonality">>
    /\ Response.status = 500

\* how far the handler has come
Rank(p) ==
    CASE p = "start" -> 0
      [] p = "query_subscription" -> 1
      [] p = "query_seasonality" -> 2
      [] p = "invoke_model" -> 3
      [] p = "normalize" -> 4
      [] p = "done" -> 5

\* the state part of C10; the last step (normalize) has no guard but its position
C10_Order ==
    /\ IsPrefix(calls, <<"subscription", "seasonality", "model">>)
    /\ Len(responses) <= 1
    /\ Done <=> Len(responses) = 1
    /\ pc \in {"start", "query_subscription"} => calls = <<>>
    /\ pc = "query_seasonality" => calls = <<"subscription">>
    /\ pc = "invoke_model" => calls = <<"subscription", "seasonality">>
    /\ pc = "normalize" => (calls = <<"subscription", "seasonality", "model">> /\ ModelReturned)
    /\ Rank(pc) < 4 =>
          ENABLED (Preflight \/ Validate \/ QuerySubscription \/ QuerySeasonality \/ InvokeModel)
    /\ (Done /\ Response.status \in {204, 400}) => calls = <<>>

\* C10: the external calls happen at most once each and only in the order
\* subscription query, seasonality query, model invocation; an early exit
\* (preflight, 400) makes none of them; every step moves the handler forward
\* (no loop, no retry), no execution stops before its response, and it ends
\* with exactly one response.
C10_CallOrder ==
    /\ [](C10_Order)
    /\ [][/\ Rank(pc') > Rank(pc)
          /\ Len(calls') <= Len(calls) + 1
          /\ Len(responses') = (IF pc' = "done" THEN 1 ELSE 0)]_vars

C10_Witness ==
    /\ Done
    /\ calls = <<"subscription", "seasonality", "model">>
    /\ Len(responses) = 1
    /\ Response.status = 200

====
